---- MODULE Spec2Model ----
(***************************************************************************)
(* Model of src/Dispersion/Dispersion_Functions.py: portfolio return and   *)
(* dispersion helpers over pandas price tables.                            *)
(*                                                                         *)
(* Numbers.  The code computes in IEEE doubles; the model computes in      *)
(* exact rationals (normalised fractions), with NaN as pandas' missing     *)
(* value.  Every arithmetic operator is the mathematical operation the     *)
(* float operation rounds, so an equality shown here holds in the code up  *)
(* to floating-point rounding.                                             *)
(*                                                                         *)
(* Tables.  A DataFrame is a record [index, columns, data]: index is the   *)
(* sequence of row labels, columns the sequence of column labels and data  *)
(* the sequence of rows, each a sequence of cells aligned with columns.    *)
(* A cell is a record [k, n, d]: a float n/d, NaN, or a date.              *)
(***************************************************************************)
EXTENDS Integers, Sequences, FiniteSets, TLC

\* Bounds of the model (not program constants).
MaxRows == 3
MaxPrice == 2
MaxLen == 2

\* Column labels of the price tables the model draws.
Assets == <<"A", "B">>

VARIABLES
  pc,               \* position: "call", "converted", "rpv", "loop", "done", "raised"
  price_df,         \* the PriceTable handed to price_df_to_returns / calculate_return
  returns,          \* the ReturnTable handed to return_portfolio_values
  args,             \* the scalar and list arguments of the pending call
  caller_values,    \* the caller's list object passed as starting_values
  passed,           \* history: what that list held when the call was made
  starting_values,  \* the local name starting_values after it is rebound (line 99)
  x,                \* the running ValueVector of the fold (lines 105, 110)
  values_df,        \* the output table being built (lines 100-114)
  row_no,           \* number of ReturnTable rows iterrows has yielded
  result            \* what the last completed call returned or raised

vars == <<pc, price_df, returns, args, caller_values, passed, starting_values, x,
          values_df, row_no, result>>

----------------------------------------------------------------------------
\* Cells and exact arithmetic

Abs(a) == IF a < 0 THEN -a ELSE a

Min(a, b) == IF a <= b THEN a ELSE b

RECURSIVE GCD(_, _)
GCD(a, b) == IF b = 0 THEN a ELSE GCD(b, a % b)

\* The float n/d in lowest terms with a positive denominator (d # 0).
Float(n, d) ==
  LET g == GCD(Abs(n), Abs(d))
      s == IF d < 0 THEN -1 ELSE 1
  IN  [k |-> "float", n |-> s * (n \div g), d |-> s * (d \div g)]

NaN == [k |-> "nan", n |-> 0, d |-> 1]

Date(t) == [k |-> "date", n |-> t, d |-> 1]

IsNaN(a) == a.k = "nan"

Add(a, b) ==
  IF IsNaN(a) \/ IsNaN(b) THEN NaN ELSE Float(a.n * b.d + b.n * a.d, a.d * b.d)

Sub(a, b) ==
  IF IsNaN(a) \/ IsNaN(b) THEN NaN ELSE Float(a.n * b.d - b.n * a.d, a.d * b.d)

Mul(a, b) ==
  IF IsNaN(a) \/ IsNaN(b) THEN NaN ELSE Float(a.n * b.n, a.d * b.d)

\* a / b for b # 0 (every divisor the model reaches is nonzero or is
\* tested for zero before the division).
Div(a, b) ==
  IF IsNaN(a) \/ IsNaN(b) THEN NaN ELSE Float(a.n * b.d, a.d * b.n)

Zero == Float(0, 1)

One == Float(1, 1)

IsZero(a) == a.k = "float" /\ a.n = 0

IsNeg(a) == a.k = "float" /\ a.n < 0

\* Python's builtin sum over a list of numbers, left to right from 0.
RECURSIVE Sum(_)
Sum(s) == IF s = <<>> THEN Zero ELSE Add(Sum(SubSeq(s, 1, Len(s) - 1)), s[Len(s)])

\* zip(a, b): pairs up to the shorter length.
ZipLen(a, b) == Min(Len(a), Len(b))

----------------------------------------------------------------------------
\* pandas operations used by the code

NRows(df) == Len(df.index)

\* The outcome of a call: the value it returned, or the exception it raised.
Returned(v) == [raised |-> "no", value |-> v]

Raised(kind) == [raised |-> kind, value |-> <<>>]

Pending == [raised |-> "pending", value |-> <<>>]

IsRaised(r) == r.raised \notin {"no", "pending"}

\* The last value present in column c at or above row i, missing if there
\* is none.
RECURSIVE PadCell(_, _, _)
PadCell(df, i, c) ==
  IF i = 1 \/ ~IsNaN(df.data[i][c]) THEN df.data[i][c] ELSE PadCell(df, i - 1, c)

\* DataFrame.fillna(method='pad'): every missing cell takes the last value
\* present above it in its column; leading missing cells stay missing.
FillNaPad(df) ==
  [df EXCEPT !.data =
     [i \in 1..NRows(df) |-> [c \in 1..Len(df.columns) |-> PadCell(df, i, c)]]]

\* DataFrame.pct_change() with its defaults (periods=1, fill_method='pad',
\* limit=None): the frame is forward-filled, then row i holds
\* filled[i]/filled[i-1] - 1, and the first row is missing.
PctChange(df) ==
  LET data == FillNaPad(df)
  IN  [df EXCEPT !.data =
         [i \in 1..NRows(df) |->
            [c \in 1..Len(df.columns) |->
               IF i = 1 THEN NaN
               ELSE Sub(Div(data.data[i][c], data.data[i - 1][c]), One)]]]

\* Mutant of ShiftUp: the shift is forgotten.
ShiftNone(df) == df

\* DataFrame.shift(-1): every row takes the values of the row after it, the
\* last row becomes missing; the index stays.
ShiftUp(df) ==
  [df EXCEPT !.data =
     [i \in 1..NRows(df) |->
        IF i < NRows(df) THEN df.data[i + 1]
        ELSE [c \in 1..Len(df.columns) |-> NaN]]]

\* Mutant of ILocDropLast: the last row is kept.
ILocAll(df) == df

\* DataFrame.iloc[:-1]: all rows but the last (none of an empty frame).
ILocDropLast(df) ==
  LET m == IF NRows(df) = 0 THEN 0 ELSE NRows(df) - 1
  IN  [df EXCEPT !.index = SubSeq(df.index, 1, m),
                 !.data = SubSeq(df.data, 1, m)]

\* df[label] = values for a new column: appended last; a length mismatch
\* raises ValueError.
SetColumn(df, label, values) ==
  IF Len(values) # NRows(df) THEN Raised("ValueError")
  ELSE Returned([df EXCEPT !.columns = Append(df.columns, label),
                           !.data = [i \in 1..NRows(df) |->
                                       Append(df.data[i], values[i])]])

\* df.reindex(columns = last column + the others)
ReindexLastFirst(df) ==
  LET k == Len(df.columns)
      perm == [c \in 1..k |-> IF c = 1 THEN k ELSE c - 1]
  IN  IF k = 0 THEN df
      ELSE [df EXCEPT !.columns = [c \in 1..k |-> df.columns[perm[c]]],
                      !.data = [i \in 1..NRows(df) |->
                                  [c \in 1..k |-> df.data[i][perm[c]]]]]

----------------------------------------------------------------------------
\* The functions of the module

\* lines 46-56
price_df_to_returns(df) ==
  LET pct == PctChange(df)
      end == [i \in 1..(IF NRows(pct) = 0 THEN 0 ELSE NRows(pct) - 1) |->
                Date(pct.index[i + 1])]
      cut == ILocDropLast(ShiftUp(pct))
      withEnd == SetColumn(cut, "End", end)
  IN  IF IsRaised(withEnd) THEN withEnd
      ELSE Returned(ReindexLastFirst(withEnd.value))

\* line 14: sum of the pairwise products.
weighted_average_return(component_returns, weights) ==
  Sum([i \in 1..ZipLen(component_returns, weights) |->
         Mul(component_returns[i], weights[i])])

None == [k |-> "none", n |-> 0, d |-> 1]

\* a ** 0.5.  The root is kept symbolically by its radicand n/d: kind "root"
\* is the non-negative real square root of a radicand >= 0; a negative
\* radicand gives Python 3's complex result, kind "complex".
Pow05(a) ==
  IF IsNaN(a) THEN NaN
  ELSE IF IsNeg(a) THEN [k |-> "complex", n |-> a.n, d |-> a.d]
  ELSE [k |-> "root", n |-> a.n, d |-> a.d]

\* Mutant of dispersion_calc: the deviations are not squared.
dispersion_calc_unsquared(component_returns, weights, portfolio_return) ==
  LET p == IF portfolio_return = None
           THEN weighted_average_return(component_returns, weights)
           ELSE portfolio_return
      terms == [i \in 1..ZipLen(component_returns, weights) |->
                  Mul(weights[i], Sub(component_returns[i], p))]
  IN  Pow05(Sum(terms))

\* lines 27-30
dispersion_calc(component_returns, weights, portfolio_return) ==
  LET p == IF portfolio_return = None
           THEN weighted_average_return(component_returns, weights)
           ELSE portfolio_return
      terms == [i \in 1..ZipLen(component_returns, weights) |->
                  Mul(weights[i],
                      Mul(Sub(component_returns[i], p), Sub(component_returns[i], p)))]
  IN  Pow05(Sum(terms))

\* line 71
apply_returns(start_values, current_returns) ==
  [i \in 1..ZipLen(start_values, current_returns) |->
     Mul(start_values[i], current_returns[i])]

\* Mutant of portfolio_weights: a zero total yields non-finite weights
\* instead of raising.
portfolio_weights_unchecked(portfolio_values) ==
  IF IsZero(Sum(portfolio_values))
  THEN Returned([i \in 1..Len(portfolio_values) |-> NaN])
  ELSE Returned([i \in 1..Len(portfolio_values) |->
                   Div(portfolio_values[i], Sum(portfolio_values))])

\* line 82: a list of Python numbers; x / sum(...) is evaluated once per
\* element, so an empty list divides nothing, and a zero total raises
\* ZeroDivisionError at the first element.
portfolio_weights(portfolio_values) ==
  IF portfolio_values = <<>> THEN Returned(<<>>)
  ELSE IF IsZero(Sum(portfolio_values)) THEN Raised("ZeroDivisionError")
  ELSE Returned([i \in 1..Len(portfolio_values) |->
                   Div(portfolio_values[i], Sum(portfolio_values))])

\* Mutant of RowsAt: the mask is index <= date.
RECURSIVE RowsAtOrBefore(_, _, _)
RowsAtOrBefore(df, date, i) ==
  IF i > NRows(df) THEN <<>>
  ELSE (IF df.index[i] <= date THEN <<df.data[i]>> ELSE <<>>)
       \o RowsAtOrBefore(df, date, i + 1)

\* price_df[price_df.index == date].values: the rows labelled date, in order.
RECURSIVE RowsAt(_, _, _)
RowsAt(df, date, i) ==
  IF i > NRows(df) THEN <<>>
  ELSE (IF df.index[i] = date THEN <<df.data[i]>> ELSE <<>>)
       \o RowsAt(df, date, i + 1)

\* Mutant of calculate_return: start and end are exchanged.
calculate_return_swapped(start_date, end_date, df) ==
  LET xs == RowsAt(df, start_date, 1)
      ys == RowsAt(df, end_date, 1)
  IN  [j \in 1..ZipLen(xs, ys) |->
         [c \in 1..Len(xs[j]) |-> Sub(Div(xs[j][c], ys[j][c]), One)]]

\* lines 128-129: one array of per-asset returns per pair of matching rows.
calculate_return(start_date, end_date, df) ==
  LET xs == RowsAt(df, end_date, 1)
      ys == RowsAt(df, start_date, 1)
  IN  [j \in 1..ZipLen(xs, ys) |->
         [c \in 1..Len(xs[j]) |-> Sub(Div(xs[j][c], ys[j][c]), One)]]

\* DataFrame.append({col: value for col, value in zip(cols, values)},
\* ignore_index=True): a new last row, missing where the dict has no key,
\* and the index renumbered from 0.
AppendZip(df, values) ==
  [df EXCEPT !.index = [i \in 1..(NRows(df) + 1) |-> i - 1],
             !.data = Append(df.data,
                        [c \in 1..Len(df.columns) |->
                           IF c <= Len(values) THEN values[c] ELSE NaN])]

\* line 99: [starting_values[-1]] + starting_values[:-1]
RotateLastFirst(s) == <<s[Len(s)]>> \o SubSeq(s, 1, Len(s) - 1)

\* Mutant of first_start: the seed row is dated at the first End.
first_end(df) == df.data[1][1]

\* line 98: returns.index[0], the first period's start date
first_start(df) == Date(df.index[1])

\* Mutant of GrossFactors: the fractional returns are applied as they are.
GrossFactorsRaw(row) == [c \in 1..(Len(row) - 1) |-> row[c + 1]]

\* line 108: list(row[1:] + 1)
GrossFactors(row) == [c \in 1..(Len(row) - 1) |-> Add(row[c + 1], One)]

\* line 112: [row[0]] + ending_values
values_to_add(row, ending_values) == <<row[1]>> \o ending_values

----------------------------------------------------------------------------
\* Inputs

\* The date labelling row i of a table: strictly increasing, and leaving
\* the odd numbers as dates no table holds.
DateOf(i) == 2 * i

DateArgs == 1..(2 * MaxRows + 1)

SeqsUpTo(S, n) == UNION {[1..m -> S] : m \in 0..n}

PriceCells == {Float(p, 1) : p \in 1..MaxPrice}


NoMissing(df) ==
  \A i \in 1..NRows(df) : \A c \in 1..Len(df.columns) : ~IsNaN(df.data[i][c])

\* PriceTables of 0..MaxRows rows: positive prices, none missing.
PriceTables ==
  UNION {{[index |-> [i \in 1..n |-> DateOf(i)], columns |-> Assets, data |-> d] :
            d \in [1..n -> [1..Len(Assets) -> PriceCells]]} : n \in 0..MaxRows}

\* df with the prices of column c missing in rows lo..hi.
WithGap(df, c, lo, hi) ==
  [df EXCEPT !.data =
     [i \in 1..NRows(df) |->
        [cc \in 1..Len(df.columns) |->
           IF cc = c /\ lo <= i /\ i <= hi THEN NaN ELSE df.data[i][cc]]]]

ReturnCells == {Float(-1, 2), Zero, One}

\* ReturnTables of 0..MaxRows periods: End first, then one fractional return
\* per asset; row i starts at DateOf(i) and ends at DateOf(i + 1).
ReturnTables ==
  UNION {{[index |-> [i \in 1..n |-> DateOf(i)],
           columns |-> <<"End">> \o Assets,
           data |-> [i \in 1..n |-> <<Date(DateOf(i + 1))>> \o d[i]]] :
            d \in [1..n -> [1..Len(Assets) -> ReturnCells]]} : n \in 0..MaxRows}

ValueVectors == [1..Len(Assets) -> PriceCells]

Samples == {Float(-1, 1), Zero, Float(1, 2), One}

EmptyFrame == [index |-> <<>>, columns |-> <<>>, data |-> <<>>]

Call(fn) ==
  [fn |-> fn, start_date |-> 0, end_date |-> 0, component_returns |-> <<>>,
   weights |-> <<>>, portfolio_return |-> None, portfolio_values |-> <<>>]

Idle ==
  /\ returns = EmptyFrame
  /\ caller_values = <<>>
  /\ passed = <<>>
  /\ starting_values = <<>>
  /\ x = <<>>
  /\ values_df = EmptyFrame
  /\ row_no = 0
  /\ result = Pending

----------------------------------------------------------------------------
\* Calls

\* price_df_to_returns(price_df)
PriceDfToReturns ==
  /\ pc = "call"
  /\ args.fn = "price_df_to_returns"
  /\ LET r == price_df_to_returns(price_df)
     IN  /\ result' = r
         /\ returns' = IF IsRaised(r) THEN returns ELSE r.value
         /\ pc' = IF IsRaised(r) THEN "raised" ELSE "converted"
  /\ UNCHANGED <<price_df, args, caller_values, passed, starting_values, x,
                 values_df, row_no>>

\* The caller composes: the first row of prices is the initial ValueVector
\* handed to return_portfolio_values with the table just returned.
SeedFirstPrices ==
  /\ pc = "converted"
  /\ NRows(price_df) >= 1
  /\ caller_values' = price_df.data[1]
  /\ passed' = price_df.data[1]
  /\ pc' = "rpv"
  /\ result' = Pending
  /\ UNCHANGED <<price_df, returns, args, starting_values, x, values_df, row_no>>

\* return_portfolio_values, lines 95-105.  returns.index[0] is evaluated
\* before the append, so an empty table raises IndexError with the list
\* untouched; otherwise the date is appended to the caller's own list.
RpvStart ==
  /\ pc = "rpv"
  /\ IF NRows(returns) = 0
     THEN /\ result' = Raised("IndexError")
          /\ pc' = "raised"
          /\ UNCHANGED <<caller_values, starting_values, x, values_df, row_no>>
     ELSE LET appended == Append(caller_values, first_start(returns))
              rebound == RotateLastFirst(appended)
              empty == [index |-> <<>>, columns |-> returns.columns, data |-> <<>>]
          IN  /\ caller_values' = appended
              /\ starting_values' = rebound
              /\ values_df' = AppendZip(empty, rebound)
              /\ x' = Tail(rebound)
              /\ row_no' = 0
              /\ pc' = "loop"
              /\ UNCHANGED result
  /\ UNCHANGED <<price_df, returns, args, passed>>

\* Mutant of RpvIter: line 110 is missing, every period starts from the
\* initial values.
RpvIter_NoCarry ==
  /\ pc = "loop"
  /\ row_no < NRows(returns)
  /\ LET row == returns.data[row_no + 1]
         ending_values == apply_returns(x, GrossFactors(row))
     IN  /\ x' = x
         /\ values_df' = AppendZip(values_df, values_to_add(row, ending_values))
  /\ row_no' = row_no + 1
  /\ UNCHANGED <<pc, price_df, returns, args, caller_values, passed,
                 starting_values, result>>

\* return_portfolio_values, lines 107-114: one iteration of the loop.
RpvIter ==
  /\ pc = "loop"
  /\ row_no < NRows(returns)
  /\ LET row == returns.data[row_no + 1]
         ending_values == apply_returns(x, GrossFactors(row))
     IN  /\ x' = ending_values
         /\ values_df' = AppendZip(values_df, values_to_add(row, ending_values))
  /\ row_no' = row_no + 1
  /\ UNCHANGED <<pc, price_df, returns, args, caller_values, passed,
                 starting_values, result>>

\* return_portfolio_values, line 116.
RpvReturn ==
  /\ pc = "loop"
  /\ row_no = NRows(returns)
  /\ result' = Returned(values_df)
  /\ pc' = "done"
  /\ UNCHANGED <<price_df, returns, args, caller_values, passed, starting_values,
                 x, values_df, row_no>>

\* calculate_return(start_date, end_date, price_df)
CalculateReturn ==
  /\ pc = "call"
  /\ args.fn = "calculate_return"
  /\ result' = Returned(calculate_return(args.start_date, args.end_date, price_df))
  /\ pc' = "done"
  /\ UNCHANGED <<price_df, returns, args, caller_values, passed, starting_values,
                 x, values_df, row_no>>

\* dispersion_calc(component_returns, weights, portfolio_return)
DispersionCalc ==
  /\ pc = "call"
  /\ args.fn = "dispersion_calc"
  /\ result' = Returned(dispersion_calc(args.component_returns, args.weights,
                                        args.portfolio_return))
  /\ pc' = "done"
  /\ UNCHANGED <<price_df, returns, args, caller_values, passed, starting_values,
                 x, values_df, row_no>>

\* portfolio_weights(portfolio_values)
PortfolioWeights ==
  /\ pc = "call"
  /\ args.fn = "portfolio_weights"
  /\ LET r == portfolio_weights(args.portfolio_values)
     IN  /\ result' = r
         /\ pc' = IF IsRaised(r) THEN "raised" ELSE "done"
  /\ UNCHANGED <<price_df, returns, args, caller_values, passed, starting_values,
                 x, values_df, row_no>>

----------------------------------------------------------------------------
\* Specifications

\* A price table converted to returns and replayed from its first row (with
\* or without a run of missing prices in one column), or queried by calculate_return.
Init ==
  /\ pc = "call"
  /\ \/ /\ price_df \in PriceTables
        /\ args \in {Call("price_df_to_returns")}
               \cup {[Call("calculate_return") EXCEPT !.start_date = s,
                                                      !.end_date = e] :
                       s \in DateArgs, e \in DateArgs}
     \/ /\ \E df \in PriceTables, c \in 1..Len(Assets) :
             \E lo \in 1..NRows(df) : \E hi \in lo..NRows(df) :
               price_df = WithGap(df, c, lo, hi)
        /\ args = Call("price_df_to_returns")
  /\ Idle

Next ==
  \/ PriceDfToReturns
  \/ SeedFirstPrices
  \/ RpvStart
  \/ RpvIter
  \/ RpvReturn
  \/ CalculateReturn

Spec == Init /\ [][Next]_vars

\* return_portfolio_values on any ReturnTable and any initial ValueVector.
InitPath ==
  /\ pc = "rpv"
  /\ price_df = EmptyFrame
  /\ args = Call("return_portfolio_values")
  /\ returns \in ReturnTables
  /\ caller_values \in ValueVectors
  /\ passed = caller_values
  /\ starting_values = <<>>
  /\ x = <<>>
  /\ values_df = EmptyFrame
  /\ row_no = 0
  /\ result = Pending

NextPath == RpvStart \/ RpvIter \/ RpvReturn

SpecPath == InitPath /\ [][NextPath]_vars

\* The single-period statistics on any lists of numbers.
InitStat ==
  /\ pc = "call"
  /\ price_df = EmptyFrame
  /\ args \in {[Call("dispersion_calc") EXCEPT !.component_returns = cr,
                                               !.weights = w,
                                               !.portfolio_return = p] :
                 cr \in SeqsUpTo(Samples, MaxLen), w \in SeqsUpTo(Samples, MaxLen),
                 p \in Samples \cup {None}}
         \cup {[Call("portfolio_weights") EXCEPT !.portfolio_values = v] :
                 v \in SeqsUpTo(Samples, MaxLen)}
  /\ Idle

NextStat == DispersionCalc \/ PortfolioWeights

SpecStat == InitStat /\ [][NextStat]_vars

----------------------------------------------------------------------------
\* Properties

K == Len(Assets)

Converting == args.fn = "price_df_to_returns"

\* C1: in the table return_portfolio_values returns, the value of asset k in
\* row i+1 is its value in row i times (1 + the return of asset k in
\* ReturnTable row i), for every period i and asset k.
C1_Recurrence ==
  pc = "done" =>
    \A i \in 1..NRows(returns) : \A k \in 1..K :
      result.value.data[i + 1][k + 1]
        = Mul(result.value.data[i][k + 1], Add(One, returns.data[i][k + 1]))

C1_Witness ==
  /\ pc = "done"
  /\ NRows(returns) >= 2
  /\ result.value.data[2][2] # result.value.data[1][2]
  /\ result.value.data[3][2] # result.value.data[2][2]

\* C2 as stated: for every ReturnTable of r rows, r = 0 included,
\* return_portfolio_values returns a table of r+1 rows, row 0 the initial
\* ValueVector dated at the first start date, row i+1 dated at End of row i.
C2_AnyRowCount ==
  pc \in {"done", "raised"} =>
    /\ result.raised = "no"
    /\ NRows(result.value) = NRows(returns) + 1

\* C2 amended: for r >= 1 the returned table has r+1 rows, row 0 holds the
\* initial ValueVector dated at the first index value, and row i+1 is dated
\* at End of ReturnTable row i; for r = 0 the call raises IndexError.
C2_RowsAndDates ==
  /\ pc = "raised" => NRows(returns) = 0 /\ result = Raised("IndexError")
  /\ pc = "done" =>
       /\ NRows(returns) >= 1
       /\ result.raised = "no"
       /\ Len(result.value.data) = NRows(returns) + 1
       /\ NRows(result.value) = NRows(returns) + 1
       /\ result.value.data[1] = <<Date(returns.index[1])>> \o passed
       /\ \A i \in 1..NRows(returns) :
            result.value.data[i + 1][1] = returns.data[i][1]

C2_Witness ==
  /\ pc = "done"
  /\ NRows(returns) = MaxRows
  /\ NRows(result.value) = MaxRows + 1

\* C3: for a PriceTable of n >= 2 rows without missing prices,
\* price_df_to_returns returns n-1 rows; row i is indexed by source date i,
\* its End is source date i+1, its return per asset is
\* price[i+1]/price[i] - 1, and the columns are End, then the assets.
C3_ReturnTable ==
  (Converting /\ pc = "converted" /\ NRows(price_df) >= 2 /\ NoMissing(price_df)) =>
    /\ result.raised = "no"
    /\ result.value.columns = <<"End">> \o Assets
    /\ NRows(result.value) = NRows(price_df) - 1
    /\ Len(result.value.data) = NRows(price_df) - 1
    /\ \A i \in 1..(NRows(price_df) - 1) :
         /\ result.value.index[i] = price_df.index[i]
         /\ result.value.data[i][1] = Date(price_df.index[i + 1])
         /\ \A c \in 1..K :
              result.value.data[i][c + 1]
                = Sub(Div(price_df.data[i + 1][c], price_df.data[i][c]), One)

C3_Witness ==
  /\ Converting
  /\ pc = "converted"
  /\ NRows(price_df) = 3
  /\ result.value.data[1][2] = One
  /\ result.value.data[2][2] = Float(-1, 2)

\* C4: price_df_to_returns followed by return_portfolio_values seeded with
\* the first row of prices reproduces the price path: for n >= 2 rows the
\* call returns n rows, row j dated at source date j and holding source
\* price row j.
C4_RoundTrip ==
  (Converting /\ NRows(price_df) >= 2 /\ NoMissing(price_df)) =>
    /\ pc # "raised"
    /\ pc = "done" =>
         /\ NRows(result.value) = NRows(price_df)
         /\ \A j \in 1..NRows(price_df) :
              result.value.data[j]
                = <<Date(price_df.index[j])>> \o price_df.data[j]

C4_Witness ==
  /\ Converting
  /\ pc = "done"
  /\ NRows(price_df) = 3
  /\ price_df.data[1] # price_df.data[2]
  /\ price_df.data[2] # price_df.data[3]

\* The product over all rows of the ReturnTable rt of (1 + return of the
\* asset in column c).
RECURSIVE Compound(_, _, _)
Compound(rt, c, i) ==
  IF i = 0 THEN One ELSE Mul(Compound(rt, c, i - 1), Add(One, rt.data[i][c]))

\* C5: for n >= 2 rows, calculate_return(first date, last date, prices) is,
\* per asset, the product over the rows of price_df_to_returns(prices) of
\* (1 + return), minus 1.
C5_Compounding ==
  (/\ args.fn = "calculate_return"
   /\ pc = "done"
   /\ NRows(price_df) >= 2
   /\ NoMissing(price_df)
   /\ args.start_date = price_df.index[1]
   /\ args.end_date = price_df.index[NRows(price_df)]) =>
    LET rt == price_df_to_returns(price_df).value
    IN  result.value
          = <<[c \in 1..K |-> Sub(Compound(rt, c + 1, NRows(rt)), One)]>>

C5_Witness ==
  /\ args.fn = "calculate_return"
  /\ pc = "done"
  /\ NRows(price_df) = 3
  /\ args.start_date = price_df.index[1]
  /\ args.end_date = price_df.index[3]
  /\ price_df.data[2] # price_df.data[1]
  /\ result.value = <<<<One, Float(-1, 2)>>>>

\* The portfolio return dispersion_calc measures against.
EffectiveReturn ==
  IF args.portfolio_return = None
  THEN weighted_average_return(args.component_returns, args.weights)
  ELSE args.portfolio_return

Paired == 1..ZipLen(args.component_returns, args.weights)

\* The result is a non-negative real, and is 0 exactly when every component
\* whose return differs from the portfolio return has weight 0.
NonNegativeAndZeroIff ==
  /\ result.value.k = "root"
  /\ result.value.n >= 0
  /\ (result.value.n = 0) <=>
       \A i \in Paired :
         args.component_returns[i] # EffectiveReturn => IsZero(args.weights[i])

\* C6 as stated: for every return vector, weight vector and override.
C6_AllWeights ==
  (args.fn = "dispersion_calc" /\ pc = "done") => NonNegativeAndZeroIff

\* C6 amended: for every return vector, every weight vector whose weights
\* are all non-negative, and every override, dispersion_calc is a
\* non-negative real and is 0 iff every component whose return differs from
\* the portfolio return has weight 0.
C6_NonNegativeWeights ==
  (/\ args.fn = "dispersion_calc"
   /\ pc = "done"
   /\ \A i \in Paired : ~IsNeg(args.weights[i])) => NonNegativeAndZeroIff

C6_Witness ==
  /\ args.fn = "dispersion_calc"
  /\ pc = "done"
  /\ Len(args.component_returns) = 2
  /\ \A i \in Paired : ~IsNeg(args.weights[i]) /\ ~IsZero(args.weights[i])
  /\ args.component_returns[1] # args.component_returns[2]
  /\ args.portfolio_return # None
  /\ result.value.k = "root"
  /\ result.value.n > 0

\* C7 as stated: portfolio_weights raises its zero-total error whenever the
\* position values sum to zero.
C7_RaisesOnZeroTotal ==
  (args.fn = "portfolio_weights" /\ pc # "call"
   /\ IsZero(Sum(args.portfolio_values))) => IsRaised(result)

\* C7 amended: for a non-empty list of Python numbers that sums to zero,
\* portfolio_weights raises ZeroDivisionError (the code's zero-total error)
\* and emits no values; the empty list, whose sum is zero too, is returned
\* as the empty list.
C7_RaisesOnNonEmptyZeroTotal ==
  (args.fn = "portfolio_weights" /\ pc # "call"
   /\ IsZero(Sum(args.portfolio_values))) =>
    IF args.portfolio_values = <<>>
    THEN pc = "done" /\ result = Returned(<<>>)
    ELSE pc = "raised" /\ result = Raised("ZeroDivisionError")

C7_Witness ==
  /\ args.fn = "portfolio_weights"
  /\ pc = "raised"
  /\ Len(args.portfolio_values) = 2
  /\ ~IsZero(args.portfolio_values[1])
  /\ result = Raised("ZeroDivisionError")

DateAbsent(t) == \A i \in 1..NRows(price_df) : price_df.index[i] # t

\* C8 as stated: calculate_return raises when start_date or end_date is
\* absent from the table's dates.
C8_RaisesOnAbsentDate ==
  (/\ args.fn = "calculate_return"
   /\ pc # "call"
   /\ DateAbsent(args.start_date) \/ DateAbsent(args.end_date)) => IsRaised(result)

\* C8 amended: when start_date or end_date is absent from the table's
\* dates, calculate_return raises nothing and returns the empty sequence.
C8_EmptyOnAbsentDate ==
  (/\ args.fn = "calculate_return"
   /\ pc # "call"
   /\ DateAbsent(args.start_date) \/ DateAbsent(args.end_date)) =>
    pc = "done" /\ result = Returned(<<>>)

C8_Witness ==
  /\ args.fn = "calculate_return"
  /\ pc = "done"
  /\ NRows(price_df) = 3
  /\ ~DateAbsent(args.start_date)
  /\ DateAbsent(args.end_date)
  /\ result = Returned(<<>>)

\* C9: for a PriceTable of 0 rows or 1 row, price_df_to_returns completes
\* and returns a ReturnTable of zero rows.
C9_TooFewRows ==
  (Converting /\ NRows(price_df) < 2) =>
    /\ result.raised # "ValueError"
    /\ pc = "converted" =>
         /\ result.raised = "no"
         /\ result.value.index = <<>>
         /\ result.value.data = <<>>

C9_Witness ==
  /\ Converting
  /\ pc = "converted"
  /\ NRows(price_df) = 1
  /\ result.raised = "no"
  /\ NRows(result.value) = 0

\* C10: return_portfolio_values leaves the caller's starting_values list as
\* it was: same length, same elements after the call returns.
C10_CallerListUnchanged ==
  pc = "done" => caller_values = passed

====
